---------------------------- MODULE Spec2Model ----------------------------
(***************************************************************************)
(* Model of autocxx-gen (gen/cmd/src/main.rs): the command line front end  *)
(* that parses a Rust file, resolves its include_cpp! blocks and writes    *)
(* either numbered C++ implementation/header pairs (gen-cpp) or one        *)
(* expanded Rust file (gen-rs).                                            *)
(*                                                                         *)
(* Text (file names, option values) is a sequence of one-character         *)
(* strings; file content is a sequence of opaque chunks.  The output       *)
(* directory is a function from file name to content.                      *)
(***************************************************************************)
EXTENDS Integers, Sequences, FiniteSets, TLC

(***************************************************************************)
(* Bounds of the model.                                                    *)
(***************************************************************************)
MaxBlocks == 2      \* include_cpp! blocks in one input file
MaxK == 2           \* generation pairs produced by one input file
MaxExact == 2       \* largest numeric --generate-exact value tried
MaxCounter == 120   \* the floor of the long runs: counters of up to three digits

(***************************************************************************)
(* Text helpers.                                                           *)
(***************************************************************************)
Digits == <<"0", "1", "2", "3", "4", "5", "6", "7", "8", "9">>

DigitValue(ch) == (CHOOSE d \in 1..10 : Digits[d] = ch) - 1

IsDigit(ch) == \E d \in 1..10 : Digits[d] = ch

\* Display of a usize: decimal, no sign, no leading zeros.
RECURSIVE Decimal(_)
Decimal(n) ==
    IF n < 10 THEN <<Digits[n + 1]>>
    ELSE Decimal(n \div 10) \o <<Digits[(n % 10) + 1]>>

RECURSIVE DigitsValue(_)
DigitsValue(s) ==
    IF s = <<>> THEN 0
    ELSE 10 * DigitsValue(SubSeq(s, 1, Len(s) - 1)) + DigitValue(s[Len(s)])

\* Faulty variant: text that is no number reads as 0 instead of an error.
parse_usizeLenient(s) ==
    LET body == IF Len(s) > 1 /\ s[1] = "+" THEN Tail(s) ELSE s
    IN  IF body # <<>> /\ \A i \in 1..Len(body) : IsDigit(body[i])
        THEN [ok |-> TRUE, val |-> DigitsValue(body)]
        ELSE [ok |-> TRUE, val |-> 0]

\* s.parse::<usize>(): an optional leading "+", then one or more decimal
\* digits; anything else (empty text, a "-", a letter) is an error.  The
\* values tried here stay far below usize::MAX, so the overflow error of
\* the parser is not reachable.
parse_usize(s) ==
    LET body == IF Len(s) > 1 /\ s[1] = "+" THEN Tail(s) ELSE s
    IN  IF body # <<>> /\ \A i \in 1..Len(body) : IsDigit(body[i])
        THEN [ok |-> TRUE, val |-> DigitsValue(body)]
        ELSE [ok |-> FALSE, val |-> 0]

\* Faulty variants of the naming: only the last digit of the counter is
\* printed; the counter is printed after its increment.
cppnameLastDigit(pat, ctr, ext) == pat \o <<Digits[(ctr % 10) + 1]>> \o <<".">> \o ext

cppnameNext(pat, ctr, ext) == pat \o Decimal(ctr + 1) \o <<".">> \o ext

\* format!("{}{}.{}", pattern, counter, cpp)
cppname(pat, ctr, ext) == pat \o Decimal(ctr) \o <<".">> \o ext

(***************************************************************************)
(* Output Writer.                                                          *)
(***************************************************************************)
\* Faulty variant: the file is opened without truncation, for appending.
FileCreateAppend(dir, filename) ==
    [n \in DOMAIN dir \cup {filename} |->
        IF n \in DOMAIN dir THEN dir[n] ELSE <<>>]

\* File::create(&path): the file exists afterwards and is empty.
FileCreate(dir, filename) ==
    [n \in DOMAIN dir \cup {filename} |->
        IF n = filename THEN <<>> ELSE dir[n]]

\* f.write_all(content) on the file just created: the bytes follow what the
\* file holds.
write_all(dir, filename, bytes) ==
    [dir EXCEPT ![filename] = @ \o bytes]

\* Faulty variant: a file that is already there is left as it is
\* (create_new with the error dropped).
write_to_fileNoOverwrite(dir, filename, content) ==
    IF filename \in DOMAIN dir
    THEN {[status |-> "ok", disk |-> dir]}
    ELSE  {[status |-> "create_failed", disk |-> dir]}
     \cup {[status |-> "ok",
            disk |-> write_all(FileCreate(dir, filename), filename, content)]}

\* Faulty variant: a failed write clears the directory.
write_to_fileCleanup(dir, filename, content) ==
      {[status |-> "create_failed", disk |-> dir]}
 \cup {[status |-> "write_failed", disk |-> [f \in {} |-> <<>>]]}
 \cup {[status |-> "ok",
        disk |-> write_all(FileCreate(dir, filename), filename, content)]}

\* write_to_file(dir, filename, content): every outcome the file system can
\* give.  "create_failed": File::create returned an error, nothing changed.
\* "write_failed": the file was created (and truncated) and write_all
\* returned an error after a proper prefix of the content.  "ok": the file
\* holds the content.  The first two make the caller panic.
write_to_file(dir, filename, content) ==
      {[status |-> "create_failed", disk |-> dir]}
 \cup {[status |-> "write_failed",
        disk |-> write_all(FileCreate(dir, filename), filename,
                           SubSeq(content, 1, n))] : n \in 0..(Len(content) - 1)}
 \cup {[status |-> "ok",
        disk |-> write_all(FileCreate(dir, filename), filename, content)]}

\* write_cpp_file(outdir, pattern, cpp, counter, content)
write_cpp_file(dir, pat, ext, ctr, content) ==
    write_to_file(dir, cppname(pat, ctr, ext), content)

\* "// Blank C++ file generated by autocxx".as_bytes()
BlankContent == <<"// Blank C++ file generated by autocxx">>

\* Faulty variant: the expanded file is numbered like a C++ file.
GenRsNameFromPattern == <<"g", "e", "n", "0", ".", "r", "s">>

\* "gen.rs".to_string()
GenRsName == <<"g", "e", "n", ".", "r", "s">>

(***************************************************************************)
(* The inputs of a run: the command line, the input file as the external   *)
(* parser, resolver and generator see it, and the output directory as      *)
(* found.                                                                  *)
(***************************************************************************)
NotGiven == [given |-> FALSE, value |-> <<>>]

Given(s) == [given |-> TRUE, value |-> s]

\* Values of --generate-exact tried: absent, the numbers 0..MaxExact, a
\* number written with a sign, and text that is no number.
ExactArgs ==
    {NotGiven} \cup {Given(Decimal(n)) : n \in 0..MaxExact}
               \cup {Given(<<"+", "1">>), Given(<<"x">>)}

\* A command line clap rejects ("malformed"), or one it accepts.  The three
\* options belong to gen-cpp: there pattern and extension are both given or
\* both left to their defaults, with every generate-exact value.  Without a
\* subcommand none is given.  gen-rs is tried with none of them and with
\* all of them set, the values a gen-rs run has to ignore.
CommandLines ==
    {[shape |-> "malformed", subcommand |-> "none", pattern |-> NotGiven,
      cpp_extension |-> NotGiven, generate_exact |-> NotGiven]}
    \cup {c \in [shape : {"ok"},
                 subcommand : {"gen-cpp", "gen-rs", "none"},
                 pattern : {NotGiven, Given(<<"f", "o", "o">>)},
                 cpp_extension : {NotGiven, Given(<<"c", "p", "p">>)},
                 generate_exact : ExactArgs] :
            /\ c.pattern.given = c.cpp_extension.given
            /\ c.subcommand = "none" =>
                    ~c.pattern.given /\ ~c.generate_exact.given
            /\ c.subcommand = "gen-rs" =>
                    c.generate_exact =
                        IF c.pattern.given THEN Given(<<"x">>) ELSE NotGiven}

\* .default_value("gen") / .unwrap_or("gen")
DefaultPattern == <<"g", "e", "n">>

\* .default_value("cc") / .unwrap_or("cc")
DefaultCpp == <<"c", "c">>

\* matches.value_of(..) of an option that has a default value.
value_of(opt, default) == IF opt.given THEN opt.value ELSE default

\* The CppFilePair values the generator may return.  The second one names
\* its header like the implementation file of counter 1 under the default
\* pattern and extension, so header and implementation names can collide.
PairKinds ==
    {[implementation |-> <<"impl_a">>, header |-> <<"hdr_a">>,
      header_name |-> <<"a", ".", "h">>],
     [implementation |-> <<"impl_b1", "impl_b2">>, header |-> <<"hdr_b">>,
      header_name |-> <<"g", "e", "n", "1", ".", "c", "c">>]}

GenerateError == [ok |-> FALSE, pairs |-> <<>>]

\* What generate_h_and_cxx() returns for one include_cpp! block.
BlockResults ==
    {GenerateError}
    \cup {[ok |-> TRUE, pairs |-> s] :
            s \in UNION {[1..m -> PairKinds] : m \in 0..MaxK}}

RECURSIVE TotalPairs(_)
TotalPairs(blocks) ==
    IF blocks = <<>> THEN 0
    ELSE Len(blocks[1].pairs) + TotalPairs(Tail(blocks))

\* get_autocxxes(): the blocks of the file in source order.
BlockSeqs ==
    {u \in UNION {[1..m -> BlockResults] : m \in 0..MaxBlocks} :
        TotalPairs(u) <= MaxK}

\* parsed_file.to_tokens(..).to_string(): the expanded source, one chunk
\* for the file and one per block.
ExpandedText(blocks) == <<"expanded">> \o [j \in 1..Len(blocks) |-> "ffi"]

\* The input file: unparsable, parsable but unresolvable, or a resolved
\* sequence of blocks.
InputFiles ==
    {[parse |-> "error", resolve |-> "error", blocks |-> <<>>],
     [parse |-> "ok", resolve |-> "error", blocks |-> <<>>]}
    \cup {[parse |-> "ok", resolve |-> "ok", blocks |-> u] : u \in BlockSeqs}

EmptyDir == [n \in {} |-> <<>>]

\* The output directory as found: empty, or holding an older a.h.
InitialDirs == {EmptyDir, [n \in {<<"a", ".", "h">>} |-> <<"old_1", "old_2">>]}

(***************************************************************************)
(* State.                                                                  *)
(***************************************************************************)
VARIABLES
    pc,             \* position of main
    error,          \* why the process aborted ("none" while it has not)
    run,            \* 1 in the first invocation, 2 in the repeated one
    matches,        \* the command line
    parsed_file,    \* the input file
    outdir,         \* content of the output directory
    outdir_start,   \* outdir when the current invocation started
    pattern,        \* local of the gen-cpp branch
    cpp,            \* local of the gen-cpp branch
    desired_number, \* local of the gen-cpp branch: Option<usize>
    counter,        \* local of the gen-cpp branch
    block,          \* index of the block the outer loop is at
    generations,    \* pairs of the current block
    pair,           \* index of the pair the inner loop is at
    consulted,      \* options read so far by this invocation
    events          \* external calls and file writes of this invocation

vars == <<pc, error, run, matches, parsed_file, outdir, outdir_start, pattern,
          cpp, desired_number, counter, block, generations, pair, consulted,
          events>>

locals == <<pattern, cpp, desired_number, counter, block, generations, pair>>

inputs == <<matches, parsed_file>>

None == [some |-> FALSE, val |-> 0]

Some(v) == [some |-> TRUE, val |-> v]

Event(op, status, blk, ctr, kind, name, content) ==
    [op |-> op, status |-> status, blk |-> blk, ctr |-> ctr, kind |-> kind,
     name |-> name, content |-> content]

CallEvent(op, status, blk) == Event(op, status, blk, 0, "-", <<>>, <<>>)

FreshLocals ==
    /\ pattern = <<>>
    /\ cpp = <<>>
    /\ desired_number = None
    /\ counter = 0
    /\ block = 0
    /\ generations = <<>>
    /\ pair = 0

Init ==
    /\ pc = "Start"
    /\ error = "none"
    /\ run = 1
    /\ matches \in CommandLines
    /\ parsed_file \in InputFiles
    /\ outdir \in InitialDirs
    /\ outdir_start = outdir
    /\ FreshLocals
    /\ consulted = {}
    /\ events = <<>>

\* Faulty variant: the error is dropped and main goes on.
ExpectIgnored(ok, cause) == "none"

\* .expect(..) / .unwrap(): the process aborts unless ok.
Expect(ok, cause) == IF ok THEN "none" ELSE cause

\* Where main continues after an expect.
After(err, next) == IF err = "none" THEN next ELSE "Fatal"

\* Faulty variant: the counter skips a number.
IncrementTwice(c) == c + 2

\* counter += 1
Increment(c) == c + 1

\* Faulty variants: the loop makes one turn too many; one turn too few.
PadNeededInclusive(ctr, desired) == desired.some /\ ctr <= desired.val

PadNeededStopsEarly(ctr, desired) == desired.some /\ ctr + 1 < desired.val

\* if let Some(desired_number) = desired_number { while counter < desired_number
PadNeeded(ctr, desired) == desired.some /\ ctr < desired.val

(***************************************************************************)
(* main, one action per step.                                              *)
(***************************************************************************)
\* App::new(..)...get_matches(): clap prints the usage error and exits when
\* the command line does not fit the declared arguments.
GetMatches ==
    /\ pc = "Start"
    /\ pc' = IF matches.shape = "ok" THEN "Matched" ELSE "Fatal"
    /\ error' = IF matches.shape = "ok" THEN "none" ELSE "usage:arguments"
    /\ UNCHANGED <<run, inputs, outdir, outdir_start, locals, consulted,
                   events>>

\* parse_file(matches.value_of("INPUT").unwrap()).expect(..)
ParseFile ==
    /\ pc = "Matched"
    /\ consulted' = consulted \cup {"INPUT"}
    /\ events' = Append(events, CallEvent("parse", parsed_file.parse, 0))
    /\ LET err == Expect(parsed_file.parse = "ok", "parse")
       IN  /\ error' = err
           /\ pc' = After(err, "Parsed")
    /\ UNCHANGED <<run, inputs, outdir, outdir_start, locals>>

\* parsed_file.resolve_all(incs, None).expect(..)
ResolveAll ==
    /\ pc = "Parsed"
    /\ consulted' = consulted \cup {"inc"}
    /\ events' = Append(events, CallEvent("resolve", parsed_file.resolve, 0))
    /\ LET err == Expect(parsed_file.resolve = "ok", "resolve")
       IN  /\ error' = err
           /\ pc' = After(err, "Resolved")
    /\ UNCHANGED <<run, inputs, outdir, outdir_start, locals>>

\* The head of the gen-cpp branch: the three options are read, the
\* generate-exact value is parsed (unwrap panics on a value that is no
\* usize) and the counter starts at 0.
GenCppSetup ==
    /\ pc = "Resolved"
    /\ matches.subcommand = "gen-cpp"
    /\ consulted' = consulted \cup
            {"outdir", "pattern", "cpp-extension", "generate-exact"}
    /\ pattern' = value_of(matches.pattern, DefaultPattern)
    /\ cpp' = value_of(matches.cpp_extension, DefaultCpp)
    /\ LET exact == matches.generate_exact
           parsed == parse_usize(exact.value)
           err == Expect(~exact.given \/ parsed.ok, "usage:generate-exact")
       IN  /\ desired_number' =
                IF exact.given /\ parsed.ok THEN Some(parsed.val) ELSE None
           /\ error' = err
           /\ pc' = After(err, "BlockLoop")
    /\ counter' = 0
    /\ block' = 1
    /\ UNCHANGED <<run, inputs, outdir, outdir_start, generations, pair,
                   events>>

\* for include_cxx in parsed_file.get_autocxxes():
\*     include_cxx.generate_h_and_cxx().expect(..)
GenerateBlock ==
    /\ pc = "BlockLoop"
    /\ block <= Len(parsed_file.blocks)
    /\ LET result == parsed_file.blocks[block]
           err == Expect(result.ok, "generate")
       IN  /\ events' = Append(events,
                CallEvent("generate", IF result.ok THEN "ok" ELSE "error", block))
           /\ generations' = result.pairs
           /\ error' = err
           /\ pc' = After(err, "PairLoop")
    /\ pair' = 1
    /\ UNCHANGED <<run, inputs, outdir, outdir_start, pattern, cpp,
                   desired_number, counter, block, consulted>>

\* for pair in generations.0: the implementation file, named by the counter.
WriteImplementation ==
    /\ pc = "PairLoop"
    /\ pair <= Len(generations)
    /\ LET name == cppname(pattern, counter, cpp)
           content == generations[pair].implementation
       IN  \E o \in write_to_file(outdir, name, content) :
             LET err == Expect(o.status = "ok", "io")
             IN  /\ outdir' = o.disk
                 /\ events' = Append(events,
                        Event("write", o.status, block, counter,
                              "implementation", name, content))
                 /\ error' = err
                 /\ pc' = After(err, "WriteHeader")
    /\ UNCHANGED <<run, inputs, outdir_start, locals, consulted>>

\* Faulty variant: the counter is advanced before the header is written, so
\* a failed header write has consumed it.
WriteHeaderCountsFirst ==
    /\ pc = "WriteHeader"
    /\ LET name == generations[pair].header_name
           content == generations[pair].header
       IN  \E o \in write_to_file(outdir, name, content) :
             LET err == Expect(o.status = "ok", "io")
             IN  /\ outdir' = o.disk
                 /\ events' = Append(events,
                        Event("write", o.status, block, counter,
                              "header", name, content))
                 /\ error' = err
                 /\ pc' = After(err, "PairLoop")
                 /\ counter' = Increment(counter)
                 /\ pair' = IF After(err, "PairLoop") = "Fatal"
                            THEN pair ELSE pair + 1
    /\ UNCHANGED <<run, inputs, outdir_start, pattern, cpp, desired_number,
                   block, generations, consulted>>

\* The header of the same pair under the generator's name, then counter += 1.
WriteHeader ==
    /\ pc = "WriteHeader"
    /\ LET name == generations[pair].header_name
           content == generations[pair].header
       IN  \E o \in write_to_file(outdir, name, content) :
             LET err == Expect(o.status = "ok", "io")
             IN  /\ outdir' = o.disk
                 /\ events' = Append(events,
                        Event("write", o.status, block, counter,
                              "header", name, content))
                 /\ error' = err
                 /\ pc' = After(err, "PairLoop")
                 /\ counter' = IF After(err, "PairLoop") = "Fatal"
                               THEN counter ELSE Increment(counter)
                 /\ pair' = IF After(err, "PairLoop") = "Fatal"
                            THEN pair ELSE pair + 1
    /\ UNCHANGED <<run, inputs, outdir_start, pattern, cpp, desired_number,
                   block, generations, consulted>>

\* The inner loop is exhausted: the outer loop takes the next block.
PairsDone ==
    /\ pc = "PairLoop"
    /\ pair > Len(generations)
    /\ block' = block + 1
    /\ pc' = "BlockLoop"
    /\ UNCHANGED <<error, run, inputs, outdir, outdir_start, pattern, cpp,
                   desired_number, counter, generations, pair, consulted,
                   events>>

\* The outer loop is exhausted.
BlocksDone ==
    /\ pc = "BlockLoop"
    /\ block > Len(parsed_file.blocks)
    /\ pc' = "Pad"
    /\ UNCHANGED <<error, run, inputs, outdir, outdir_start, locals,
                   consulted, events>>

\* One turn of the padding loop: write_cpp_file(..blank..); counter += 1.
WritePadding ==
    /\ pc = "Pad"
    /\ PadNeeded(counter, desired_number)
    /\ \E o \in write_cpp_file(outdir, pattern, cpp, counter, BlankContent) :
         LET err == Expect(o.status = "ok", "io")
         IN  /\ outdir' = o.disk
             /\ events' = Append(events,
                    Event("write", o.status, 0, counter, "padding",
                          cppname(pattern, counter, cpp), BlankContent))
             /\ error' = err
             /\ pc' = After(err, "Pad")
             /\ counter' = IF After(err, "Pad") = "Fatal"
                           THEN counter ELSE Increment(counter)
    /\ UNCHANGED <<run, inputs, outdir_start, pattern, cpp, desired_number,
                   block, generations, pair, consulted>>

\* No floor was asked for or the counter has reached it: main returns.
FinishGenCpp ==
    /\ pc = "Pad"
    /\ ~PadNeeded(counter, desired_number)
    /\ pc' = "Done"
    /\ UNCHANGED <<error, run, inputs, outdir, outdir_start, locals,
                   consulted, events>>

\* The gen-rs branch: the whole file is turned into tokens and their text
\* is written as gen.rs.
GenRs ==
    /\ pc = "Resolved"
    /\ matches.subcommand = "gen-rs"
    /\ consulted' = consulted \cup {"outdir"}
    /\ LET content == ExpandedText(parsed_file.blocks)
       IN  \E o \in write_to_file(outdir, GenRsName, content) :
             LET err == Expect(o.status = "ok", "io")
             IN  /\ outdir' = o.disk
                 /\ events' = events \o
                        <<CallEvent("to_tokens", "ok", 0),
                          Event("write", o.status, 0, 0, "rs", GenRsName,
                                content)>>
                 /\ error' = err
                 /\ pc' = After(err, "Done")
    /\ UNCHANGED <<run, inputs, outdir_start, locals>>

\* panic!("Must specify a subcommand")
NoSubcommand ==
    /\ pc = "Resolved"
    /\ matches.subcommand = "none"
    /\ consulted' = consulted \cup {"outdir"}
    /\ error' = "usage:subcommand"
    /\ pc' = "Fatal"
    /\ UNCHANGED <<run, inputs, outdir, outdir_start, locals, events>>

\* The tool is invoked a second time with the same command line and input
\* file on the directory the finished invocation left.
Rerun ==
    /\ pc = "Done"
    /\ run = 1
    /\ run' = 2
    /\ pc' = "Start"
    /\ error' = "none"
    /\ outdir_start' = outdir
    /\ pattern' = <<>>
    /\ cpp' = <<>>
    /\ desired_number' = None
    /\ counter' = 0
    /\ block' = 0
    /\ generations' = <<>>
    /\ pair' = 0
    /\ consulted' = {}
    /\ events' = <<>>
    /\ UNCHANGED <<inputs, outdir>>

Next ==
    \/ GetMatches
    \/ ParseFile
    \/ ResolveAll
    \/ GenCppSetup
    \/ GenerateBlock
    \/ WriteImplementation
    \/ WriteHeader
    \/ PairsDone
    \/ BlocksDone
    \/ WritePadding
    \/ FinishGenCpp
    \/ GenRs
    \/ NoSubcommand
    \/ Rerun

Spec == Init /\ [][Next]_vars

\* The process is single-threaded and never waits: a step that is possible
\* is taken.
FairSpec == Spec /\ WF_vars(Next)

(***************************************************************************)
(* The same program on inputs that take the counter through one, two and   *)
(* three digits: a floor of MaxCounter over no block or over one block of  *)
(* two pairs.                                                              *)
(***************************************************************************)
LongRunCommandLines ==
    {c \in CommandLines :
        \/ c.shape = "ok" /\ c.subcommand = "gen-cpp"
                          /\ c.generate_exact = Given(<<"0">>)
        \/ c.shape = "ok" /\ c.subcommand # "gen-cpp"
                          /\ c.generate_exact = NotGiven
                          /\ ~c.pattern.given /\ ~c.cpp_extension.given}

LongRunInit ==
    /\ pc = "Start"
    /\ error = "none"
    /\ run = 1
    /\ \E c \in LongRunCommandLines :
         matches = IF c.subcommand = "gen-cpp"
                   THEN [c EXCEPT !.generate_exact = Given(Decimal(MaxCounter))]
                   ELSE c
    /\ parsed_file \in
         {f \in InputFiles :
            /\ f.resolve = "ok"
            /\ \/ f.blocks = <<>>
               \/ /\ Len(f.blocks) = 1
                  /\ Len(f.blocks[1].pairs) = 2
                  /\ f.blocks[1].pairs[1] # f.blocks[1].pairs[2]}
    /\ outdir = EmptyDir
    /\ outdir_start = outdir
    /\ FreshLocals
    /\ consulted = {}
    /\ events = <<>>

LongRunSpec == LongRunInit /\ [][Next]_vars

(***************************************************************************)
(* What an invocation has done so far, read off its events.                *)
(***************************************************************************)
IsWrite(e) == e.op = "write"

Writes == SelectSeq(events, IsWrite)

\* Number of events before position i that satisfy Test.
CountBefore(i, Test(_)) == Cardinality({h \in 1..(i - 1) : Test(events[h])})

CountAll(Test(_)) == CountBefore(Len(events) + 1, Test)

IsHeaderDone(e) == e.op = "write" /\ e.kind = "header" /\ e.status = "ok"

IsPaddingDone(e) == e.op = "write" /\ e.kind = "padding" /\ e.status = "ok"

IsGenerate(e) == e.op = "generate"

IsNumbered(e) == e.op = "write" /\ e.kind \in {"implementation", "padding"}

NameAndContent(e) == [name |-> e.name, content |-> e.content]

Projected(es) == [i \in 1..Len(es) |-> NameAndContent(es[i])]

\* A directory after a file is put at a path: last write wins.
Overwritten(dir, name, content) ==
    [n \in DOMAIN dir \cup {name} |-> IF n = name THEN content ELSE dir[n]]

RECURSIVE Replayed(_, _)
Replayed(dir, ws) ==
    IF ws = <<>> THEN dir
    ELSE Replayed(Overwritten(dir, ws[1].name, ws[1].content), Tail(ws))

\* The pairs of all blocks in source order.
RECURSIVE AllPairs(_)
AllPairs(blocks) ==
    IF blocks = <<>> THEN <<>>
    ELSE blocks[1].pairs \o AllPairs(Tail(blocks))

K == TotalPairs(parsed_file.blocks)

\* Number of padding files a floor asks for on top of k pairs.
Shortfall(floor, k) == IF floor.some /\ floor.val > k THEN floor.val - k ELSE 0

NumberedName(pat, n, ext) == pat \o Decimal(n) \o <<".">> \o ext

\* The writes of a complete gen-cpp run, from its inputs alone: for pair
\* number c (from 0) the implementation under <pattern><c>.<ext> and then
\* its header, and after the pairs the padding files up to the floor.
ExpectedWrites(pat, ext, pairs, floor) ==
    LET k == Len(pairs)
    IN  [x \in 1..(2 * k + Shortfall(floor, k)) |->
            IF x <= 2 * k
            THEN IF x % 2 = 1
                 THEN [name |-> NumberedName(pat, (x - 1) \div 2, ext),
                       content |-> pairs[(x + 1) \div 2].implementation]
                 ELSE [name |-> pairs[x \div 2].header_name,
                       content |-> pairs[x \div 2].header]
            ELSE [name |-> NumberedName(pat, x - k - 1, ext),
                  content |-> <<"// Blank C++ file generated by autocxx">>]]

GenCppDone == pc = "Done" /\ matches.subcommand = "gen-cpp"

ParsedAndResolved ==
    /\ Len(events) >= 2
    /\ events[1].op = "parse" /\ events[1].status = "ok"
    /\ events[2].op = "resolve" /\ events[2].status = "ok"

C2_ResolveFirst ==
    /\ (\E i \in 1..Len(events) :
            events[i].op \in {"write", "generate", "to_tokens"})
        => ParsedAndResolved
    /\ (block > 0 \/ outdir # outdir_start) => ParsedAndResolved
    /\ \A i \in 1..Len(events) :
            (events[i].op \in {"parse", "resolve"} /\ events[i].status # "ok")
            => /\ pc = "Fatal"
               /\ i = Len(events)
               /\ outdir = outdir_start
               /\ Writes = <<>>

C2_Witness ==
    /\ pc = "Fatal"
    /\ error = "parse"
    /\ matches.subcommand = "gen-cpp"
    /\ matches.generate_exact = Given(<<"2">>)
    /\ Writes = <<>>

(***************************************************************************)
(* C3.  A usage error (a command line clap rejects, no subcommand, a       *)
(* generate-exact value that is no number) ends the process before any     *)
(* call of the parser, the resolver or the generator.                      *)
(***************************************************************************)
UsageErrors == {"usage:arguments", "usage:subcommand", "usage:generate-exact"}

C3_UsageBeforeCalls ==
    error \in UsageErrors =>
        \A i \in 1..Len(events) :
            events[i].op \notin {"parse", "resolve", "generate"}

C5_Counter ==
    [][ /\ (run' = run) => (counter' = counter \/ counter' = counter + 1)
        /\ (pc = "Resolved" /\ pc' = "BlockLoop") => counter' = 0
        /\ (pc = "BlockLoop" /\ pc' = "Pad") => counter' = K
      ]_vars

C5_Witness ==
    /\ pc = "Pad"
    /\ Len(parsed_file.blocks) = 2
    /\ Len(parsed_file.blocks[1].pairs) = 1
    /\ Len(parsed_file.blocks[2].pairs) = 1
    /\ counter = 2
    /\ CountAll(IsPaddingDone) = 0

(***************************************************************************)
(* C6.  As claimed: when a gen-cpp run aborts, every file the run wrote    *)
(* before the failure is still there with the content it had.              *)
(***************************************************************************)
GenCppStates == {"BlockLoop", "PairLoop", "WriteHeader", "Pad"}

WrittenNames ==
    {events[i].name : i \in {h \in 1..Len(events) :
                                IsWrite(events[h]) /\ events[h].status = "ok"}}

C6_AllEarlierFilesKept ==
    [][ (pc \in GenCppStates /\ pc' = "Fatal") =>
            \A n \in WrittenNames :
                n \in DOMAIN outdir' /\ outdir'[n] = outdir[n]
      ]_vars

(***************************************************************************)
(* C6, amended.  When a gen-cpp run aborts (a generate error or a create   *)
(* or write error), every file of the directory other than the target of   *)
(* the failing write is there with its content unchanged, whether this     *)
(* run wrote it or not; a failed create changes nothing at all; the        *)
(* target of a failed write is left holding a proper prefix of the         *)
(* content, also when an earlier write of the run had put a file there.    *)
(* The failure is the last thing the run does: no event follows a failed   *)
(* one and the aborted process takes no further step.                      *)
(***************************************************************************)
C6_NoRollbackNoContinue ==
    [][ /\ (pc \in GenCppStates /\ pc' = "Fatal") =>
            LET last == events'[Len(events')]
            IN  /\ Len(events') = Len(events) + 1
                /\ last.status # "ok"
                /\ DOMAIN outdir \subseteq DOMAIN outdir'
                /\ \A n \in DOMAIN outdir :
                        (last.status = "write_failed" /\ n = last.name)
                        \/ outdir'[n] = outdir[n]
                /\ last.status # "write_failed" => outdir' = outdir
                /\ last.status = "write_failed" =>
                        /\ last.name \in DOMAIN outdir'
                        /\ Len(outdir'[last.name]) < Len(last.content)
                        /\ outdir'[last.name] =
                             SubSeq(last.content, 1, Len(outdir'[last.name]))
        /\ \A i \in 1..(Len(events') - 1) : events'[i].status = "ok"
        /\ pc # "Fatal"
      ]_vars

C6_Witness ==
    /\ pc = "Fatal"
    /\ error = "io"
    /\ matches.subcommand = "gen-cpp"
    /\ Len(parsed_file.blocks) = 2
    /\ CountAll(IsGenerate) = 1
    /\ CountAll(IsHeaderDone) = 1
    /\ events[Len(events)].status = "write_failed"
    /\ events[Len(events)].name \in WrittenNames
    /\ outdir[events[Len(events)].name] = <<>>

(***************************************************************************)
(* C7.  The name of an implementation or padding file is the pattern, the  *)
(* counter in decimal, a dot and the extension: the digits read back give  *)
(* the counter, two different counters give two different names under the  *)
(* same pattern and extension, and no two numbered files of a run share a  *)
(* name.                                                                   *)
(***************************************************************************)
CounterIn(name, pat, ext) ==
    DigitsValue(SubSeq(name, Len(pat) + 1, Len(name) - Len(ext) - 1))

WellFormedName(name, pat, ctr, ext) ==
    /\ Len(name) > Len(pat) + Len(ext) + 1
    /\ SubSeq(name, 1, Len(pat)) = pat
    /\ SubSeq(name, Len(name) - Len(ext), Len(name)) = <<".">> \o ext
    /\ \A x \in (Len(pat) + 1)..(Len(name) - Len(ext) - 1) : IsDigit(name[x])
    /\ name[Len(pat) + 1] = "0" => Len(name) = Len(pat) + Len(ext) + 2
    /\ CounterIn(name, pat, ext) = ctr

C7_NamingInjective ==
    \A a \in 1..Len(events) :
        IsNumbered(events[a]) =>
            /\ WellFormedName(events[a].name, pattern, events[a].ctr, cpp)
            /\ \A b \in 1..(a - 1) :
                  IsNumbered(events[b]) =>
                      /\ events[b].ctr # events[a].ctr
                      /\ events[b].name # events[a].name

C7_Witness ==
    /\ GenCppDone
    /\ K = 2
    /\ counter > 100
    /\ \E a \in 1..Len(events) : IsNumbered(events[a]) /\ events[a].ctr = 12
    /\ \E a \in 1..Len(events) : IsNumbered(events[a]) /\ events[a].ctr = 112

(***************************************************************************)
(* C8.  A gen-cpp run that completes on the directory an identical,        *)
(* completed run left behind leaves the same files with the same content.  *)
(***************************************************************************)
C8_Idempotent ==
    (run > 1 /\ GenCppDone) => outdir = outdir_start

C8_Witness ==
    /\ run = 2
    /\ GenCppDone
    /\ K = 1
    /\ desired_number = Some(2)
    /\ \E n \in DOMAIN outdir : n \notin WrittenNames

(***************************************************************************)
(* C9.  Every invocation reaches Done or the fatal state.  The padding     *)
(* loop never takes the counter past the floor, and a completed run has    *)
(* made max(0, N - k) turns of it, the counter standing at N whenever      *)
(* padding was needed.                                                     *)
(***************************************************************************)
Terminated == pc \in {"Done", "Fatal"}

C9_Terminates ==
    /\ (pc = "Start") ~> Terminated
    /\ [](CountAll(IsPaddingDone) > 0 =>
            desired_number.some /\ counter <= desired_number.val)
    /\ [](GenCppDone =>
            /\ CountAll(IsPaddingDone) = Shortfall(desired_number, K)
            /\ Shortfall(desired_number, K) > 0 =>
                    counter = desired_number.val)

C9_Witness ==
    /\ GenCppDone
    /\ K = 0
    /\ CountAll(IsPaddingDone) = 2

(***************************************************************************)
(* C10.  In a gen-cpp run the blocks are generated in source order, each   *)
(* after all pairs of the blocks before it are written; each               *)
(* implementation file is named with the number of pairs completed before  *)
(* it and is followed at once by the header of the same pair, after which  *)
(* the counter is one higher; padding comes only after the last pair of    *)
(* the last block.                                                         *)
(***************************************************************************)
PairsBefore(j) == TotalPairs(SubSeq(parsed_file.blocks, 1, j - 1))

C10_Order ==
    matches.subcommand = "gen-cpp" =>
      /\ counter = CountAll(IsHeaderDone) + CountAll(IsPaddingDone)
      /\ \A i \in 1..Len(events) :
          LET e == events[i]
              done == CountBefore(i, IsHeaderDone)
          IN  /\ IsGenerate(e) =>
                    /\ e.blk = CountBefore(i, IsGenerate) + 1
                    /\ done = PairsBefore(e.blk)
              /\ (IsWrite(e) /\ e.kind = "implementation") =>
                    /\ e.ctr = done
                    /\ e.name = NumberedName(pattern, done, cpp)
                    /\ e.content =
                         AllPairs(parsed_file.blocks)[done + 1].implementation
                    /\ e.blk = CountBefore(i, IsGenerate)
                    /\ (e.status = "ok" /\ i < Len(events)) =>
                         /\ IsWrite(events[i + 1])
                         /\ events[i + 1].kind = "header"
              /\ (IsWrite(e) /\ e.kind = "header") =>
                    /\ i > 1
                    /\ IsWrite(events[i - 1])
                    /\ events[i - 1].kind = "implementation"
                    /\ events[i - 1].status = "ok"
                    /\ e.ctr = done
                    /\ e.name = AllPairs(parsed_file.blocks)[done + 1].header_name
                    /\ e.content = AllPairs(parsed_file.blocks)[done + 1].header
              /\ (IsWrite(e) /\ e.kind = "padding") =>
                    /\ done = K
                    /\ CountBefore(i, IsGenerate) = Len(parsed_file.blocks)
                    /\ \A h \in 1..(i - 1) : events[h].status = "ok"
                    /\ \A h \in (i + 1)..Len(events) :
                          IsWrite(events[h]) /\ events[h].kind = "padding"

C10_Witness ==
    /\ GenCppDone
    /\ Len(parsed_file.blocks) = 2
    /\ Len(parsed_file.blocks[1].pairs) = 1
    /\ Len(parsed_file.blocks[2].pairs) = 1
    /\ CountAll(IsHeaderDone) = 2
    /\ CountAll(IsPaddingDone) = 0

(***************************************************************************)
(* C11.  Writes are plain create-and-overwrite.  In every state of a run,  *)
(* each path the run has written holds exactly the content of the last     *)
(* completed write to it in emission order, whatever the path held before  *)
(* (a file found at the start or an earlier write of the same run), and    *)
(* every other path is as it was found; the one path excepted is the       *)
(* target of a write that has just failed partway.  The files the run has  *)
(* put on disk are the names it wrote, so they are fewer than the writes   *)
(* performed exactly when two writes went to one name, which happens when  *)
(* a header name equals another header name or a numbered file's name.     *)
(***************************************************************************)
\* A write that reached the disk: the file was created.
IsPerformed(e) == e.op = "write" /\ e.status # "create_failed"

IsDone(e) == e.op = "write" /\ e.status = "ok"

PerformedNames ==
    {events[i].name : i \in {h \in 1..Len(events) : IsPerformed(events[h])}}

\* Position of the last completed write to the path n.
LastDone(n) ==
    CHOOSE i \in 1..Len(events) :
        /\ IsDone(events[i]) /\ events[i].name = n
        /\ \A j \in (i + 1)..Len(events) :
                ~(IsDone(events[j]) /\ events[j].name = n)

\* The path a failed write has left partly written, if there is one.
TornPaths ==
    {events[i].name : i \in {h \in 1..Len(events) :
        IsWrite(events[h]) /\ events[h].status = "write_failed"}}

\* Two performed writes went to the same name, one of them a header.
HeaderCollision ==
    \E i, j \in 1..Len(events) :
        /\ i < j
        /\ IsPerformed(events[i]) /\ IsPerformed(events[j])
        /\ events[i].name = events[j].name
        /\ "header" \in {events[i].kind, events[j].kind}

IsImplementationDone(e) ==
    e.op = "write" /\ e.kind = "implementation" /\ e.status = "ok"

\* Implementation files put on disk (whole or in part) whose header was not
\* written after them.
Orphans ==
    {i \in 1..Len(events) :
        /\ IsPerformed(events[i]) /\ events[i].kind = "implementation"
        /\ \A j \in (i + 1)..Len(events) :
                ~(IsHeaderDone(events[j]) /\ events[j].ctr = events[i].ctr)}

C12_PairedWrites ==
    LET impls == CountAll(IsImplementationDone)
        headers == CountAll(IsHeaderDone)
    IN  /\ impls - headers \in {0, 1}
        /\ counter = headers + CountAll(IsPaddingDone)
        /\ impls - headers = 1 =>
                \/ pc = "WriteHeader"
                \/ pc = "Fatal" /\ error = "io"
        /\ Cardinality(Orphans) <= 1
        /\ \A i \in Orphans :
                /\ i >= Len(events) - 1
                /\ events[i].ctr = counter
                /\ \A j \in 1..Len(events) :
                        (j # i /\ IsNumbered(events[j])) =>
                            events[j].ctr # events[i].ctr
        /\ Orphans # {} => pc \in {"WriteHeader", "Fatal"}

\* The header of the second pair could not be created: its implementation
\* file is on disk alone, under the counter value 1 the run still holds.
C12_Witness ==
    /\ pc = "Fatal"
    /\ error = "io"
    /\ CountAll(IsImplementationDone) = 2
    /\ CountAll(IsHeaderDone) = 1
    /\ counter = 1
    /\ events[Len(events)].kind = "header"
    /\ events[Len(events)].status = "create_failed"
    /\ Cardinality(Orphans) = 1
    /\ cppname(pattern, counter, cpp) \in DOMAIN outdir
    /\ outdir[cppname(pattern, counter, cpp)] =
            events[Len(events) - 1].content

(***************************************************************************)
(* C13.  A run without a subcommand, and a gen-cpp run whose               *)
(* generate-exact value is not a non-negative integer, end in the fatal    *)
(* state, and at no point of such a run is a block generated or a file     *)
(* written: the directory stays as it was found.  This is so also when     *)
(* the input parses, resolves and has binding blocks, since the            *)
(* generate-exact value is parsed before the first pair is generated.      *)
(***************************************************************************)
\* Text that is not a decimal number, with or without a leading "+".
NotANumber(s) ==
    \/ s = <<>>
    \/ s = <<"+">>
    \/ \E i \in 1..Len(s) : ~IsDigit(s[i]) /\ ~(i = 1 /\ s[i] = "+")

NoSubcommandGiven == matches.shape = "ok" /\ matches.subcommand = "none"

BadExactGiven ==
    /\ matches.shape = "ok"
    /\ matches.subcommand = "gen-cpp"
    /\ matches.generate_exact.given
    /\ NotANumber(matches.generate_exact.value)

C13_NothingWritten ==
    /\ (pc = "Start" /\ (NoSubcommandGiven \/ BadExactGiven)) ~> (pc = "Fatal")
    /\ []((NoSubcommandGiven \/ BadExactGiven) =>
            /\ Writes = <<>>
            /\ CountAll(IsGenerate) = 0
            /\ outdir = outdir_start
            /\ pc \notin GenCppStates \cup {"Done"}
            /\ (pc = "Fatal" /\ ParsedAndResolved) =>
                    error = IF NoSubcommandGiven THEN "usage:subcommand"
                            ELSE "usage:generate-exact")

\* gen-cpp --generate-exact x on an input of two blocks with two pairs that
\* parsed and resolved, in a directory that already holds a file.
C13_Witness ==
    /\ pc = "Fatal"
    /\ BadExactGiven
    /\ error = "usage:generate-exact"
    /\ ParsedAndResolved
    /\ Len(parsed_file.blocks) = 2
    /\ K = 2
    /\ Writes = <<>>
    /\ outdir = outdir_start
    /\ outdir # EmptyDir

============================================================================
